---- MODULE Spec2Model ----
(***************************************************************************)
(* A model of transport/ServiceManagement.cpp of libhidl:                  *)
(*   - defaultServiceManager(), the lazily initialised process-wide        *)
(*     handle to the hwservicemanager, one action per statement;           *)
(*   - details::waitForHwService() and details::Waiter, the condition      *)
(*     variable wait bridged to the onRegistration callback;               *)
(*   - PassthroughServiceManager, the dlopen/dlsym lookup of a             *)
(*     passthrough implementation and its LOG(FATAL) operations.           *)
(* Program counters are named after the source line they stand at.         *)
(***************************************************************************)
EXTENDS Integers, Sequences, FiniteSets, TLC

\* ------------------------------------------------------------------ bounds
NumThreads == 2      \* threads calling defaultServiceManager()
MaxCalls == 2        \* calls one thread makes
MaxFailures == 2     \* failed getContextObject() attempts in one run
NumHandles == 2      \* distinct proxies fromBinder() can hand out
NumCallbacks == 2    \* onRegistration deliveries to one Waiter
MaxFiles == 3        \* directory entries in the three search paths together
MaxGetCalls == 1     \* calls of PassthroughServiceManager::get
MaxNameLen == 2      \* characters of a file name handed to search()
MaxAffixLen == 2     \* characters of the prefix and of the suffix handed to search()
MaxEntries == 2      \* entries of the directory handed to search()

\* line 49: the null sp<>
NULL == 0

Threads == 1..NumThreads
Procs == Threads
Handles == 1..NumHandles
\* No value yet: what a thread holds before defaultServiceManager() returned.
NotYet == NumHandles + 1
\* Every call of waitForHwService makes a Waiter of its own (line 219), so
\* the calls share nothing but the registry handle: one caller is followed.
Waiters == {t \in Threads : \A u \in Threads : t <= u}
Callbacks == 1..NumCallbacks

VARIABLES
    \* ---- defaultServiceManager
    gDefaultServiceManager,      \* the global sp<IServiceManager>, NULL or a handle
    gDefaultServiceManagerLock,  \* the global Mutex: 0 or the thread holding it
    pc,                          \* per thread: the statement it stands at
    op,                          \* per thread: the public function it is in
    calls,                       \* per thread: calls started so far
    probe,                       \* per thread: result of access() in this call
    retval,                      \* per thread: last value defaultServiceManager returned
    didLock,                     \* per thread: this call took the mutex
    didLookup,                   \* per thread: this call ran getContextObject
    didSleep,                    \* per thread: this call ran sleep(1)
    startedPublished,            \* per thread: the handle was published when this call began
    lookers,                     \* threads that ever ran getContextObject
    totalLookups,                \* getContextObject invocations so far
    failures,                    \* of which returned no object
    successes,                   \* assignments of a non-null handle to the global
    returned,                    \* every value a defaultServiceManager call returned
    \* ---- waitForHwService / Waiter
    manager,                     \* per thread: the local `manager`
    regResult,                   \* per thread: the Return<bool> of registerForNotifications
    waiterCreated,               \* per thread: a Waiter was made and handed to the registry
    mRegistered,                 \* per Waiter: the flag
    mMutex,                      \* per Waiter: 0 free, -1 held by wait(), c held by callback c
    cbpc,                        \* per Waiter and callback: statement of onRegistration
    notified,                    \* per Waiter: notify_one() calls so far
    enteredWait,                 \* per thread: waiter->wait() was called
    outcome,                     \* per thread: how waitForHwService returned
    \* ---- the file system the passthrough lookup reads
    dirOpen,                     \* per search path: opendir() succeeds
    dirEntries,                  \* per search path: the names readdir() yields, in order
    loadable,                    \* the <<path, name>> that dlopen() can open
    exportsSym,                  \* the <<path, name>> that export HIDL_FETCH_<iface>
    \* ---- PassthroughServiceManager
    alive,                       \* the process has not aborted
    fatalOp,                     \* the operation whose LOG(FATAL) aborted it
    ppc,                         \* statement of get() the caller stands at
    getCalls,                    \* calls of get() started so far
    iface,                       \* FQName iface(fqName): what its predicates answer
    instName,                    \* the argument `name`
    root,                        \* index of `path` in the list of line 110
    libs,                        \* the vector `libs`
    idx,                         \* position of `lib` in libs
    handle,                      \* the dlopen handle, or NoHandle
    library,                     \* the string `library`
    result,                      \* what get() returned
    scanned,                     \* paths searched in this call, in order
    warned,                      \* paths for which the warning was logged
    attempts,                    \* <<path, name>> handed to dlopen in this call, in order
    symLookups,                  \* dlsym() calls in this call
    factoryCalls,                \* <<handle, arg, product>> of every generator call in this call
    errors,                      \* LOG(ERROR) lines of this call
    loadedLibs,                  \* every library dlopen() opened in this process
    \* ---- a direct call of search()
    sCalled,                     \* search() was called
    sPath,                       \* its argument `path`
    sPrefix,                     \* its argument `prefix`
    sSuffix,                     \* its argument `suffix`
    sResult                      \* the vector it returned

regVars == <<gDefaultServiceManager, gDefaultServiceManagerLock, pc, op, calls, probe,
             retval, didLock, didLookup, didSleep, startedPublished, lookers,
             totalLookups, failures, successes, returned>>
waitVars == <<manager, regResult, waiterCreated, mRegistered, mMutex, cbpc, notified,
              enteredWait, outcome>>
regVars_but_pc == <<gDefaultServiceManager, gDefaultServiceManagerLock, op, calls, probe,
                    retval, didLock, didLookup, didSleep, startedPublished, lookers,
                    totalLookups, failures, successes, returned>>
fsVars == <<dirOpen, dirEntries, loadable, exportsSym>>
getVars == <<ppc, getCalls, iface, instName, root, libs, idx, handle, library, result,
             scanned, warned, attempts, symLookups, factoryCalls, errors, loadedLibs>>
scanVars == <<sCalled, sPath, sPrefix, sSuffix, sResult>>
passVars == <<fsVars, alive, fatalOp, getVars, scanVars>>
vars == <<regVars, waitVars, passVars>>

\* ------------------------------------------------- defaultServiceManager()

\* `return v;` of defaultServiceManager: back to the caller.
DsmReturn(t, v) ==
    /\ retval' = [retval EXCEPT ![t] = v]
    /\ returned' = returned \cup {v}
    /\ IF op[t] = "waitForService"
         THEN /\ pc' = [pc EXCEPT ![t] = "W214"]
              /\ manager' = [manager EXCEPT ![t] = v]
              /\ op' = op
         ELSE /\ pc' = [pc EXCEPT ![t] = "idle"]
              /\ op' = [op EXCEPT ![t] = "none"]
              /\ manager' = manager

\* Entry of a call: the per-call bookkeeping starts afresh.
DsmEnter(t) ==
    /\ calls[t] < MaxCalls
    /\ calls' = [calls EXCEPT ![t] = @ + 1]
    /\ probe' = [probe EXCEPT ![t] = "none"]
    /\ retval' = [retval EXCEPT ![t] = NotYet]
    /\ didLock' = [didLock EXCEPT ![t] = FALSE]
    /\ didLookup' = [didLookup EXCEPT ![t] = FALSE]
    /\ didSleep' = [didSleep EXCEPT ![t] = FALSE]
    /\ startedPublished' = [startedPublished EXCEPT ![t] = gDefaultServiceManager # NULL]
    /\ pc' = [pc EXCEPT ![t] = "L49"]

\* A thread calls defaultServiceManager().
GetRegistry(t) ==
    /\ pc[t] = "idle"
    /\ DsmEnter(t)
    /\ op' = [op EXCEPT ![t] = "getRegistry"]
    /\ UNCHANGED <<gDefaultServiceManager, gDefaultServiceManagerLock, lookers,
                   totalLookups, failures, successes, returned, waitVars, passVars>>

\* Mutant of CheckCached: the cached handle is not looked at, every call
\* goes on to the probe.
CheckCachedAlwaysProbe(t) ==
    /\ pc[t] = "L49"
    /\ pc' = [pc EXCEPT ![t] = "L50"]
    /\ UNCHANGED <<retval, returned, op, manager>>
    /\ UNCHANGED <<gDefaultServiceManager, gDefaultServiceManagerLock, calls, probe,
                   didLock, didLookup, didSleep, startedPublished, lookers,
                   totalLookups, failures, successes>>
    /\ UNCHANGED <<regResult, waiterCreated, mRegistered, mMutex, cbpc, notified,
                   enteredWait, outcome, passVars>>

\* line 49: if (gDefaultServiceManager != NULL) return gDefaultServiceManager;
\* read without the mutex: it sees whatever the global holds at this step.
CheckCached(t) ==
    /\ pc[t] = "L49"
    /\ IF gDefaultServiceManager # NULL
         THEN DsmReturn(t, gDefaultServiceManager)
         ELSE /\ pc' = [pc EXCEPT ![t] = "L50"]
              /\ UNCHANGED <<retval, returned, op, manager>>
    /\ UNCHANGED <<gDefaultServiceManager, gDefaultServiceManagerLock, calls, probe,
                   didLock, didLookup, didSleep, startedPublished, lookers,
                   totalLookups, failures, successes>>
    /\ UNCHANGED <<regResult, waiterCreated, mRegistered, mMutex, cbpc, notified,
                   enteredWait, outcome, passVars>>

\* Mutant of Probe: the result of access() is not acted on.
ProbeIgnored(t) ==
    /\ pc[t] = "L50"
    /\ \E ok \in BOOLEAN :
         probe' = [probe EXCEPT ![t] = IF ok THEN "ok" ELSE "fail"]
    /\ pc' = [pc EXCEPT ![t] = "L56"]
    /\ UNCHANGED <<gDefaultServiceManager, gDefaultServiceManagerLock, op, calls, retval,
                   didLock, didLookup, didSleep, startedPublished, lookers,
                   totalLookups, failures, successes, returned, waitVars, passVars>>

\* lines 50-54: access("/dev/hwbinder", ...) != 0 -> return nullptr.
\* The result of access() is the host's answer: either.
Probe(t) ==
    /\ pc[t] = "L50"
    /\ \E ok \in BOOLEAN :
         IF ok
           THEN /\ probe' = [probe EXCEPT ![t] = "ok"]
                /\ pc' = [pc EXCEPT ![t] = "L56"]
                /\ UNCHANGED <<retval, returned, op, manager>>
           ELSE /\ probe' = [probe EXCEPT ![t] = "fail"]
                /\ DsmReturn(t, NULL)
    /\ UNCHANGED <<gDefaultServiceManager, gDefaultServiceManagerLock, calls,
                   didLock, didLookup, didSleep, startedPublished, lookers,
                   totalLookups, failures, successes>>
    /\ UNCHANGED <<regResult, waiterCreated, mRegistered, mMutex, cbpc, notified,
                   enteredWait, outcome, passVars>>

\* Mutant of Lock: the AutoMutex left out, nothing excludes a second thread.
LockNoExclusion(t) ==
    /\ pc[t] = "L56"
    /\ gDefaultServiceManagerLock' = t
    /\ didLock' = [didLock EXCEPT ![t] = TRUE]
    /\ pc' = [pc EXCEPT ![t] = "L57"]
    /\ UNCHANGED <<gDefaultServiceManager, op, calls, probe, retval, didLookup, didSleep,
                   startedPublished, lookers, totalLookups, failures, successes,
                   returned, waitVars, passVars>>

\* line 56: AutoMutex _l(gDefaultServiceManagerLock);
Lock(t) ==
    /\ pc[t] = "L56"
    /\ gDefaultServiceManagerLock = 0
    /\ gDefaultServiceManagerLock' = t
    /\ didLock' = [didLock EXCEPT ![t] = TRUE]
    /\ pc' = [pc EXCEPT ![t] = "L57"]
    /\ UNCHANGED <<gDefaultServiceManager, op, calls, probe, retval, didLookup, didSleep,
                   startedPublished, lookers, totalLookups, failures, successes,
                   returned, waitVars, passVars>>

\* Mutant of LoopCondition: a do-while, the body runs before the first test.
LoopConditionDoWhile(t) == ~didLookup[t] \/ gDefaultServiceManager = NULL

\* line 57: the loop condition, the global still NULL.
LoopCondition(t) == gDefaultServiceManager = NULL

\* line 57: while (gDefaultServiceManager == NULL)
LoopTest(t) ==
    /\ pc[t] = "L57"
    /\ pc' = [pc EXCEPT ![t] = IF LoopCondition(t) THEN "L58" ELSE "L63"]
    /\ UNCHANGED <<gDefaultServiceManager, gDefaultServiceManagerLock, op, calls, probe,
                   retval, didLock, didLookup, didSleep, startedPublished, lookers,
                   totalLookups, failures, successes, returned, waitVars, passVars>>

\* lines 58-59: gDefaultServiceManager = fromBinder<...>(getContextObject(NULL));
\* the transport yields no object (while the registry is not up) or a proxy.
Lookup(t) ==
    /\ pc[t] = "L58"
    /\ \E h \in {NULL} \cup Handles :
         /\ h = NULL => failures < MaxFailures
         /\ gDefaultServiceManager' = h
         /\ failures' = IF h = NULL THEN failures + 1 ELSE failures
         /\ successes' = IF h = NULL THEN successes ELSE successes + 1
    /\ totalLookups' = totalLookups + 1
    /\ lookers' = lookers \cup {t}
    /\ didLookup' = [didLookup EXCEPT ![t] = TRUE]
    /\ pc' = [pc EXCEPT ![t] = "L60"]
    /\ UNCHANGED <<gDefaultServiceManagerLock, op, calls, probe, retval, didLock, didSleep,
                   startedPublished, returned, waitVars, passVars>>

\* Mutant of SleepIfNull: the mutex is dropped for the duration of the sleep
\* and not taken again.
SleepIfNullUnlocked(t) ==
    /\ pc[t] = "L60"
    /\ didSleep' = [didSleep EXCEPT ![t] = @ \/ gDefaultServiceManager = NULL]
    /\ gDefaultServiceManagerLock' =
         IF gDefaultServiceManager = NULL THEN 0 ELSE gDefaultServiceManagerLock
    /\ pc' = [pc EXCEPT ![t] = "L57"]
    /\ UNCHANGED <<gDefaultServiceManager, op, calls, probe,
                   retval, didLock, didLookup, startedPublished, lookers,
                   totalLookups, failures, successes, returned, waitVars, passVars>>

\* Mutant of SleepIfNull: a failed attempt ends the loop instead of being
\* retried after the sleep.
SleepIfNullGiveUp(t) ==
    /\ pc[t] = "L60"
    /\ didSleep' = [didSleep EXCEPT ![t] = @ \/ gDefaultServiceManager = NULL]
    /\ pc' = [pc EXCEPT ![t] = IF gDefaultServiceManager = NULL THEN "L63" ELSE "L57"]
    /\ UNCHANGED <<gDefaultServiceManager, gDefaultServiceManagerLock, op, calls, probe,
                   retval, didLock, didLookup, startedPublished, lookers,
                   totalLookups, failures, successes, returned, waitVars, passVars>>

\* lines 60-61: if (gDefaultServiceManager == NULL) sleep(1); then back to the test.
SleepIfNull(t) ==
    /\ pc[t] = "L60"
    /\ didSleep' = [didSleep EXCEPT ![t] = @ \/ gDefaultServiceManager = NULL]
    /\ pc' = [pc EXCEPT ![t] = "L57"]
    /\ UNCHANGED <<gDefaultServiceManager, gDefaultServiceManagerLock, op, calls, probe,
                   retval, didLock, didLookup, startedPublished, lookers,
                   totalLookups, failures, successes, returned, waitVars, passVars>>

\* line 63: the AutoMutex goes out of scope.
Unlock(t) ==
    /\ pc[t] = "L63"
    /\ gDefaultServiceManagerLock' = 0
    /\ pc' = [pc EXCEPT ![t] = "L65"]
    /\ UNCHANGED <<gDefaultServiceManager, op, calls, probe, retval, didLock, didLookup,
                   didSleep, startedPublished, lookers, totalLookups, failures,
                   successes, returned, waitVars, passVars>>

\* line 65: return gDefaultServiceManager;
ReturnHandle(t) ==
    /\ pc[t] = "L65"
    /\ DsmReturn(t, gDefaultServiceManager)
    /\ UNCHANGED <<gDefaultServiceManager, gDefaultServiceManagerLock, calls, probe,
                   didLock, didLookup, didSleep, startedPublished, lookers,
                   totalLookups, failures, successes>>
    /\ UNCHANGED <<regResult, waiterCreated, mRegistered, mMutex, cbpc, notified,
                   enteredWait, outcome, passVars>>

\* One step of a thread inside defaultServiceManager().
DsmStep(t) ==
    \/ CheckCached(t)
    \/ Probe(t)
    \/ Lock(t)
    \/ LoopTest(t)
    \/ Lookup(t)
    \/ SleepIfNull(t)
    \/ Unlock(t)
    \/ ReturnHandle(t)

\* ------------------------------------------------------- details::Waiter

\* A thread calls details::waitForHwService(); line 212 calls
\* defaultServiceManager().  Each call makes its own Waiter: one per thread.
WaitForService(t) ==
    /\ pc[t] = "idle"
    /\ outcome[t] = "none"
    /\ ~waiterCreated[t]
    /\ DsmEnter(t)
    /\ op' = [op EXCEPT ![t] = "waitForService"]
    /\ UNCHANGED <<gDefaultServiceManager, gDefaultServiceManagerLock, lookers,
                   totalLookups, failures, successes, returned, waitVars, passVars>>

\* `return;` of waitForHwService.
WaitReturn(t, how) ==
    /\ outcome' = [outcome EXCEPT ![t] = how]
    /\ pc' = [pc EXCEPT ![t] = "idle"]
    /\ op' = [op EXCEPT ![t] = "none"]

\* lines 214-217: if (manager == nullptr) { LOG(ERROR) ...; return; }
CheckManager(t) ==
    /\ pc[t] = "W214"
    /\ IF manager[t] = NULL
         THEN WaitReturn(t, "noManager")
         ELSE /\ pc' = [pc EXCEPT ![t] = "W219"]
              /\ UNCHANGED <<outcome, op>>
    /\ UNCHANGED <<gDefaultServiceManager, gDefaultServiceManagerLock, calls, probe,
                   retval, didLock, didLookup, didSleep, startedPublished, lookers,
                   totalLookups, failures, successes, returned>>
    /\ UNCHANGED <<manager, regResult, waiterCreated, mRegistered, mMutex, cbpc,
                   notified, enteredWait, passVars>>

\* lines 219-220: sp<Waiter> waiter = new Waiter();
\* ret = manager->registerForNotifications(interface, instanceName, waiter);
\* the remote call fails in the transport, or answers false or true.
Register(t) ==
    /\ pc[t] = "W219"
    /\ waiterCreated' = [waiterCreated EXCEPT ![t] = TRUE]
    /\ mRegistered' = [mRegistered EXCEPT ![t] = FALSE]
    /\ \E r \in {"transportError", "false", "true"} :
         regResult' = [regResult EXCEPT ![t] = r]
    /\ pc' = [pc EXCEPT ![t] = "W222"]
    /\ UNCHANGED <<regVars_but_pc, manager, mMutex, cbpc, notified, enteredWait, outcome, passVars>>

\* lines 222-227: if (!ret.isOk()) { LOG(ERROR) ...; return; }
CheckOk(t) ==
    /\ pc[t] = "W222"
    /\ IF regResult[t] = "transportError"
         THEN WaitReturn(t, "transportError")
         ELSE /\ pc' = [pc EXCEPT ![t] = "W229"]
              /\ UNCHANGED <<outcome, op>>
    /\ UNCHANGED <<gDefaultServiceManager, gDefaultServiceManagerLock, calls, probe,
                   retval, didLock, didLookup, didSleep, startedPublished, lookers,
                   totalLookups, failures, successes, returned>>
    /\ UNCHANGED <<manager, regResult, waiterCreated, mRegistered, mMutex, cbpc,
                   notified, enteredWait, passVars>>

\* Mutant of CheckRet: the test of the returned bool left out.
CheckRetNoTest(t) ==
    /\ pc[t] = "W229"
    /\ pc' = [pc EXCEPT ![t] = "W198"]
    /\ enteredWait' = [enteredWait EXCEPT ![t] = TRUE]
    /\ UNCHANGED <<regVars_but_pc, manager, regResult, waiterCreated, mRegistered, mMutex,
                   cbpc, notified, outcome, passVars>>

\* lines 229-235: if (!ret) { LOG(ERROR) ...; return; }  waiter->wait();
CheckRet(t) ==
    /\ pc[t] = "W229"
    /\ IF regResult[t] = "false"
         THEN /\ WaitReturn(t, "logicalFailure")
              /\ UNCHANGED enteredWait
         ELSE /\ pc' = [pc EXCEPT ![t] = "W198"]
              /\ enteredWait' = [enteredWait EXCEPT ![t] = TRUE]
              /\ UNCHANGED <<outcome, op>>
    /\ UNCHANGED <<gDefaultServiceManager, gDefaultServiceManagerLock, calls, probe,
                   retval, didLock, didLookup, didSleep, startedPublished, lookers,
                   totalLookups, failures, successes, returned>>
    /\ UNCHANGED <<manager, regResult, waiterCreated, mRegistered, mMutex, cbpc, notified,
                   passVars>>

\* line 198: std::unique_lock<std::mutex> lock(mMutex);
WaitLock(t) ==
    /\ pc[t] = "W198"
    /\ mMutex[t] = 0
    /\ mMutex' = [mMutex EXCEPT ![t] = -1]
    /\ pc' = [pc EXCEPT ![t] = "W199"]
    /\ UNCHANGED <<regVars_but_pc, manager, regResult, waiterCreated, mRegistered, cbpc,
                   notified, enteredWait, outcome, passVars>>

\* Mutant of WaitPredicate: the flag tested the wrong way round.
WaitPredicateInverted(t) == ~mRegistered[t]

\* lines 199-201: the predicate of the wait, [this]{ return mRegistered; }
WaitPredicate(t) == mRegistered[t]

\* line 199: mCondition.wait(lock, pred) is while (!pred()) wait(lock);
\* pred holds: wait returns, the lock is released at line 202 and
\* waitForHwService returns; otherwise the mutex is released and the thread blocks.
WaitCheck(t) ==
    /\ pc[t] = "W199"
    /\ mMutex' = [mMutex EXCEPT ![t] = 0]
    /\ IF WaitPredicate(t)
         THEN WaitReturn(t, "registered")
         ELSE /\ pc' = [pc EXCEPT ![t] = "blocked"]
              /\ UNCHANGED <<outcome, op>>
    /\ UNCHANGED <<gDefaultServiceManager, gDefaultServiceManagerLock, calls, probe,
                   retval, didLock, didLookup, didSleep, startedPublished, lookers,
                   totalLookups, failures, successes, returned>>
    /\ UNCHANGED <<manager, regResult, waiterCreated, mRegistered, cbpc, notified,
                   enteredWait, passVars>>

\* A condition variable may wake its waiter with no notification.
SpuriousWake(t) ==
    /\ pc[t] = "blocked"
    /\ pc' = [pc EXCEPT ![t] = "woken"]
    /\ UNCHANGED <<regVars_but_pc, waitVars, passVars>>

\* A woken waiter takes the mutex again before wait(lock) returns to the loop.
WaitReacquire(t) ==
    /\ pc[t] = "woken"
    /\ mMutex[t] = 0
    /\ mMutex' = [mMutex EXCEPT ![t] = -1]
    /\ pc' = [pc EXCEPT ![t] = "W199"]
    /\ UNCHANGED <<regVars_but_pc, manager, regResult, waiterCreated, mRegistered, cbpc,
                   notified, enteredWait, outcome, passVars>>

\* One step of a thread inside waitForHwService() after line 212.
WaitStep(t) ==
    \/ CheckManager(t)
    \/ Register(t)
    \/ CheckOk(t)
    \/ CheckRet(t)
    \/ WaitLock(t)
    \/ WaitCheck(t)
    \/ SpuriousWake(t)
    \/ WaitReacquire(t)

\* The registry delivers onRegistration to a Waiter it was handed, on a
\* transport thread.
CbStart(t, c) ==
    /\ cbpc[t][c] = "idle"
    /\ waiterCreated[t]
    /\ cbpc' = [cbpc EXCEPT ![t][c] = "C186"]
    /\ UNCHANGED <<regVars, manager, regResult, waiterCreated, mRegistered, mMutex,
                   notified, enteredWait, outcome, passVars>>

\* line 186: std::unique_lock<std::mutex> lock(mMutex);
CbLock(t, c) ==
    /\ cbpc[t][c] = "C186"
    /\ mMutex[t] = 0
    /\ mMutex' = [mMutex EXCEPT ![t] = c]
    /\ cbpc' = [cbpc EXCEPT ![t][c] = "C187"]
    /\ UNCHANGED <<regVars, manager, regResult, waiterCreated, mRegistered,
                   notified, enteredWait, outcome, passVars>>

\* Mutant of CbCheck: the test of mRegistered left out, every delivery sets
\* the flag and goes on to signal.
CbCheckNoTest(t, c) ==
    /\ cbpc[t][c] = "C187"
    /\ mRegistered' = [mRegistered EXCEPT ![t] = TRUE]
    /\ cbpc' = [cbpc EXCEPT ![t][c] = "C191"]
    /\ UNCHANGED <<regVars, manager, regResult, waiterCreated, mMutex, notified,
                   enteredWait, outcome, passVars>>

\* lines 187-190: if (mRegistered) return Void();  mRegistered = true;
CbCheck(t, c) ==
    /\ cbpc[t][c] = "C187"
    /\ IF mRegistered[t]
         THEN /\ mMutex' = [mMutex EXCEPT ![t] = 0]
              /\ cbpc' = [cbpc EXCEPT ![t][c] = "done"]
              /\ UNCHANGED mRegistered
         ELSE /\ mRegistered' = [mRegistered EXCEPT ![t] = TRUE]
              /\ cbpc' = [cbpc EXCEPT ![t][c] = "C191"]
              /\ UNCHANGED mMutex
    /\ UNCHANGED <<regVars, manager, regResult, waiterCreated, notified, enteredWait,
                   outcome, passVars>>

\* line 191: lock.unlock();
CbUnlock(t, c) ==
    /\ cbpc[t][c] = "C191"
    /\ mMutex' = [mMutex EXCEPT ![t] = 0]
    /\ cbpc' = [cbpc EXCEPT ![t][c] = "C193"]
    /\ UNCHANGED <<regVars, manager, regResult, waiterCreated, mRegistered,
                   notified, enteredWait, outcome, passVars>>

\* Mutant of CbNotify: notify_one() left out, nobody is woken.
CbNotifyMissing(t, c) ==
    /\ cbpc[t][c] = "C193"
    /\ notified' = [notified EXCEPT ![t] = @ + 1]
    /\ cbpc' = [cbpc EXCEPT ![t][c] = "done"]
    /\ UNCHANGED <<regVars, manager, regResult, waiterCreated, mRegistered, mMutex,
                   enteredWait, outcome, passVars>>

\* lines 193-194: mCondition.notify_one(); return Void();
\* a thread blocked in the condition variable is woken, nothing else changes.
CbNotify(t, c) ==
    /\ cbpc[t][c] = "C193"
    /\ notified' = [notified EXCEPT ![t] = @ + 1]
    /\ cbpc' = [cbpc EXCEPT ![t][c] = "done"]
    /\ pc' = IF pc[t] = "blocked" THEN [pc EXCEPT ![t] = "woken"] ELSE pc
    /\ UNCHANGED <<regVars_but_pc, manager, regResult, waiterCreated, mRegistered, mMutex,
                   enteredWait, outcome, passVars>>

\* One step of one onRegistration delivery.
CbStep(t, c) ==
    \/ CbStart(t, c)
    \/ CbLock(t, c)
    \/ CbCheck(t, c)
    \/ CbUnlock(t, c)
    \/ CbNotify(t, c)

\* ------------------------------------------------------- search()

\* StringHelper::StartsWith / EndsWith on names as sequences of pieces.
StartsWith(name, prefix) ==
    /\ Len(name) >= Len(prefix)
    /\ SubSeq(name, 1, Len(prefix)) = prefix

EndsWith(name, suffix) ==
    /\ Len(name) >= Len(suffix)
    /\ SubSeq(name, Len(name) - Len(suffix) + 1, Len(name)) = suffix

\* Mutant of search: the suffix is not tested.
searchPrefixOnly(path, prefix, suffix) ==
    IF ~dirOpen[path]
      THEN <<>>
      ELSE SelectSeq(dirEntries[path], LAMBDA name : StartsWith(name, prefix))

\* lines 68-87: the entries of `path` that start with prefix and end with
\* suffix, in readdir order; nothing when opendir fails.
search(path, prefix, suffix) ==
    IF ~dirOpen[path]
      THEN <<>>
      ELSE SelectSeq(dirEntries[path],
                     LAMBDA name : StartsWith(name, prefix) /\ EndsWith(name, suffix))

\* lines 68-87 called by themselves: any path, prefix and suffix.
Letters == {"a", "b"}
Affixes == UNION {[1..k -> Letters] : k \in 0..MaxAffixLen}
Search ==
    /\ ~sCalled
    /\ sCalled' = TRUE
    /\ \E p \in {"ODM", "VENDOR", "SYSTEM"}, pre \in Affixes, suf \in Affixes :
         /\ sPath' = p
         /\ sPrefix' = pre
         /\ sSuffix' = suf
         /\ sResult' = search(p, pre, suf)
    /\ UNCHANGED <<regVars, waitVars, fsVars, alive, fatalOp, getVars>>

\* ------------------------------------------- PassthroughServiceManager::get

\* Mutant of HalLibraryPaths: the system path searched first.
HalLibraryPathsSystemFirst == <<"SYSTEM", "VENDOR", "ODM">>

\* line 110: the search paths in the order the loop visits them.
HalLibraryPaths == <<"ODM", "VENDOR", "SYSTEM">>
Paths == {"ODM", "VENDOR", "SYSTEM"}

\* line 112: iface.getPackageAndVersion().string() + "-impl", and ".so"
Prefix == <<"pkg@1.0", "-impl">>
Suffix == <<".so">>

\* What FQName answers for the four shapes of fqName: unparsable, a bare
\* identifier ("IFoo"), valid but lacking package or version, fully qualified.
NameKinds ==
    { [isValid |-> FALSE, isFullyQualified |-> FALSE, isIdentifier |-> FALSE],
      [isValid |-> TRUE,  isFullyQualified |-> FALSE, isIdentifier |-> TRUE],
      [isValid |-> TRUE,  isFullyQualified |-> FALSE, isIdentifier |-> FALSE],
      [isValid |-> TRUE,  isFullyQualified |-> TRUE,  isIdentifier |-> FALSE] }
NoName == [isValid |-> FALSE, isFullyQualified |-> FALSE, isIdentifier |-> FALSE]
InstanceNames == {"default", "other"}

NoHandle == <<>>
NoResult == <<"pending">>
Absent == <<"nullptr", "">>
Service(h, n) == <<"service", n, h>>

\* `return v;` of get.
GetReturn(v) ==
    /\ result' = v
    /\ ppc' = "idle"

\* A caller invokes get(fqName, name) on the passthrough service manager.
Get ==
    /\ alive
    /\ ppc = "idle"
    /\ getCalls < MaxGetCalls
    /\ getCalls' = getCalls + 1
    /\ \E k \in NameKinds : iface' = k
    /\ \E n \in InstanceNames : instName' = n
    /\ ppc' = "G94"
    /\ root' = 0
    /\ libs' = <<>>
    /\ idx' = 0
    /\ handle' = NoHandle
    /\ library' = <<>>
    /\ result' = NoResult
    /\ scanned' = <<>>
    /\ warned' = <<>>
    /\ attempts' = <<>>
    /\ symLookups' = 0
    /\ factoryCalls' = <<>>
    /\ errors' = <<>>
    /\ UNCHANGED <<regVars, waitVars, scanVars, fsVars, alive, fatalOp, loadedLibs>>

\* Mutant of InvalidName: isFullyQualified() not asked.
InvalidNameNoQualifiedTest ==
    \/ ~iface.isValid
    \/ iface.isIdentifier

\* lines 94-96: the condition under which the name is refused.
InvalidName ==
    \/ ~iface.isValid
    \/ ~iface.isFullyQualified
    \/ iface.isIdentifier

\* lines 94-99: refuse the name, or enter the loop over the paths.
Validate ==
    /\ alive
    /\ ppc = "G94"
    /\ IF InvalidName
         THEN /\ errors' = Append(errors, "InvalidInterfaceName")
              /\ GetReturn(Absent)
              /\ UNCHANGED root
         ELSE /\ root' = 1
              /\ ppc' = "G114"
              /\ UNCHANGED <<errors, result>>
    /\ UNCHANGED <<regVars, waitVars, scanVars, fsVars, alive, fatalOp, getCalls, iface, instName,
                   libs, idx, handle, library, scanned, warned, attempts, symLookups,
                   factoryCalls, loadedLibs>>

\* Mutant of Scan: the warning is logged for any root that has a candidate.
ScanWarnsNonEmpty ==
    /\ alive
    /\ ppc = "G114"
    /\ LET path == HalLibraryPaths[root]
           found == search(path, Prefix, Suffix)
       IN /\ libs' = found
          /\ scanned' = Append(scanned, path)
          /\ warned' = IF Len(found) >= 1 THEN Append(warned, path) ELSE warned
    /\ idx' = 1
    /\ ppc' = "G120"
    /\ UNCHANGED <<regVars, waitVars, scanVars, fsVars, alive, fatalOp, getCalls, iface, instName,
                   root, handle, library, result, attempts, symLookups, factoryCalls,
                   errors, loadedLibs>>

\* lines 112-118: libs = search(path, prefix, ".so"); warn when more than one.
Scan ==
    /\ alive
    /\ ppc = "G114"
    /\ LET path == HalLibraryPaths[root]
           found == search(path, Prefix, Suffix)
       IN /\ libs' = found
          /\ scanned' = Append(scanned, path)
          /\ warned' = IF Len(found) > 1 THEN Append(warned, path) ELSE warned
    /\ idx' = 1
    /\ ppc' = "G120"
    /\ UNCHANGED <<regVars, waitVars, scanVars, fsVars, alive, fatalOp, getCalls, iface, instName,
                   root, handle, library, result, attempts, symLookups, factoryCalls,
                   errors, loadedLibs>>

\* Mutant of Dlopen: a library that does not open ends both loops.
DlopenFailureEnds ==
    /\ alive
    /\ ppc = "G120"
    /\ idx <= Len(libs)
    /\ LET file == <<HalLibraryPaths[root], libs[idx]>>
       IN /\ attempts' = Append(attempts, file)
          /\ IF file \in loadable
               THEN /\ handle' = file
                    /\ library' = libs[idx]
                    /\ loadedLibs' = loadedLibs \cup {file}
                    /\ ppc' = "G137"
                    /\ UNCHANGED idx
               ELSE /\ handle' = NoHandle
                    /\ ppc' = "G129"
                    /\ UNCHANGED <<library, loadedLibs, idx>>
    /\ UNCHANGED <<regVars, waitVars, scanVars, fsVars, alive, fatalOp, getCalls, iface, instName,
                   root, libs, result, scanned, warned, symLookups, factoryCalls, errors>>

\* Mutant of Dlopen: `break` in place of `goto beginLookup`, which leaves
\* only the inner loop.
DlopenBreak ==
    /\ alive
    /\ ppc = "G120"
    /\ idx <= Len(libs)
    /\ LET file == <<HalLibraryPaths[root], libs[idx]>>
       IN /\ attempts' = Append(attempts, file)
          /\ IF file \in loadable
               THEN /\ handle' = file
                    /\ library' = libs[idx]
                    /\ loadedLibs' = loadedLibs \cup {file}
                    /\ idx' = Len(libs) + 1
               ELSE /\ handle' = NoHandle
                    /\ idx' = idx + 1
                    /\ UNCHANGED <<library, loadedLibs>>
    /\ UNCHANGED <<regVars, waitVars, scanVars, fsVars, alive, fatalOp, getCalls, iface, instName,
                   root, libs, result, scanned, warned, symLookups, factoryCalls, errors,
                   ppc>>

\* lines 120-126: handle = dlopen(path + lib); the first that opens ends
\* both loops (goto beginLookup), one that does not moves to the next lib.
Dlopen ==
    /\ alive
    /\ ppc = "G120"
    /\ idx <= Len(libs)
    /\ LET file == <<HalLibraryPaths[root], libs[idx]>>
       IN /\ attempts' = Append(attempts, file)
          /\ IF file \in loadable
               THEN /\ handle' = file
                    /\ library' = libs[idx]
                    /\ loadedLibs' = loadedLibs \cup {file}
                    /\ ppc' = "G137"
                    /\ UNCHANGED idx
               ELSE /\ handle' = NoHandle
                    /\ idx' = idx + 1
                    /\ UNCHANGED <<library, loadedLibs, ppc>>
    /\ UNCHANGED <<regVars, waitVars, scanVars, fsVars, alive, fatalOp, getCalls, iface, instName,
                   root, libs, result, scanned, warned, symLookups, factoryCalls, errors>>

\* lines 109-127: libs is exhausted: the next path, or out of the loop.
NextPath ==
    /\ alive
    /\ ppc = "G120"
    /\ idx > Len(libs)
    /\ IF root < Len(HalLibraryPaths)
         THEN /\ root' = root + 1
              /\ ppc' = "G114"
         ELSE /\ ppc' = "G129"
              /\ UNCHANGED root
    /\ UNCHANGED <<regVars, waitVars, scanVars, fsVars, alive, fatalOp, getCalls, iface, instName,
                   libs, idx, handle, library, result, scanned, warned, attempts,
                   symLookups, factoryCalls, errors, loadedLibs>>

\* lines 129-131: if (handle == nullptr) return nullptr;
CheckHandle ==
    /\ alive
    /\ ppc = "G129"
    /\ IF handle = NoHandle
         THEN GetReturn(Absent)
         ELSE /\ ppc' = "G137"
              /\ UNCHANGED result
    /\ UNCHANGED <<regVars, waitVars, scanVars, fsVars, alive, fatalOp, getCalls, iface, instName,
                   root, libs, idx, handle, library, scanned, warned, attempts,
                   symLookups, factoryCalls, errors, loadedLibs>>

\* Mutant of Dlsym: a library without the symbol is passed over and the
\* loop over the candidates resumed.
DlsymTryNext ==
    /\ alive
    /\ ppc = "G137"
    /\ symLookups' = symLookups + 1
    /\ IF handle \in exportsSym
         THEN /\ ppc' = "G143"
              /\ UNCHANGED <<errors, handle, idx>>
         ELSE /\ errors' = Append(errors, "MissingSymbol")
              /\ handle' = NoHandle
              /\ idx' = idx + 1
              /\ ppc' = "G120"
    /\ UNCHANGED <<regVars, waitVars, scanVars, fsVars, alive, fatalOp, getCalls, iface, instName,
                   root, libs, library, result, scanned, warned, attempts,
                   factoryCalls, loadedLibs>>

\* Mutant of Dlsym: the library is closed again (dlclose) when the symbol
\* is missing.
DlsymCloseOnMissing ==
    /\ alive
    /\ ppc = "G137"
    /\ symLookups' = symLookups + 1
    /\ IF handle \in exportsSym
         THEN /\ ppc' = "G143"
              /\ UNCHANGED <<result, errors, loadedLibs>>
         ELSE /\ errors' = Append(errors, "MissingSymbol")
              /\ loadedLibs' = loadedLibs \ {handle}
              /\ GetReturn(Absent)
    /\ UNCHANGED <<regVars, waitVars, scanVars, fsVars, alive, fatalOp, getCalls, iface, instName,
                   root, libs, idx, handle, library, scanned, warned, attempts,
                   factoryCalls>>

\* lines 134-142: generator = dlsym(handle, "HIDL_FETCH_" + iface.name());
\* without the symbol: LOG(ERROR) and return nullptr.
Dlsym ==
    /\ alive
    /\ ppc = "G137"
    /\ symLookups' = symLookups + 1
    /\ IF handle \in exportsSym
         THEN /\ ppc' = "G143"
              /\ UNCHANGED <<result, errors>>
         ELSE /\ errors' = Append(errors, "MissingSymbol")
              /\ GetReturn(Absent)
    /\ UNCHANGED <<regVars, waitVars, scanVars, fsVars, alive, fatalOp, getCalls, iface, instName,
                   root, libs, idx, handle, library, scanned, warned, attempts,
                   factoryCalls, loadedLibs>>

\* What the factory of library h can answer when called with instance name
\* n: a service for that instance, or a null pointer.
Products(h, n) == {Absent, Service(h, n)}

\* Mutant of Invoke: the factory is called with the default instance name,
\* whatever the caller asked for.
InvokeDefaultInstance ==
    /\ alive
    /\ ppc = "G143"
    /\ \E produced \in Products(handle, "default") :
         /\ factoryCalls' = Append(factoryCalls, <<handle, "default", produced>>)
         /\ GetReturn(produced)
    /\ UNCHANGED <<regVars, waitVars, scanVars, fsVars, alive, fatalOp, getCalls, iface, instName,
                   root, libs, idx, handle, library, scanned, warned, attempts,
                   symLookups, errors, loadedLibs>>

\* line 143: return (*generator)(name); the factory is called once with
\* `name` and what it answers is returned as it is.
Invoke ==
    /\ alive
    /\ ppc = "G143"
    /\ \E produced \in Products(handle, instName) :
         /\ factoryCalls' = Append(factoryCalls, <<handle, instName, produced>>)
         /\ GetReturn(produced)
    /\ UNCHANGED <<regVars, waitVars, scanVars, fsVars, alive, fatalOp, getCalls, iface, instName,
                   root, libs, idx, handle, library, scanned, warned, attempts,
                   symLookups, errors, loadedLibs>>

\* LOG(FATAL) << ...: android-base logs the line and aborts the process;
\* the `return` after it is never reached.

\* Mutant of add: LOG(ERROR) in place of LOG(FATAL), `return false` reached.
addReturnsFalse ==
    /\ alive
    /\ ppc = "idle"
    /\ fatalOp = "none"
    /\ fatalOp' = "add"
    /\ UNCHANGED <<regVars, waitVars, scanVars, fsVars, getVars, alive>>

\* lines 146-151: add
add ==
    /\ alive
    /\ ppc = "idle"
    /\ alive' = FALSE
    /\ fatalOp' = "add"
    /\ UNCHANGED <<regVars, waitVars, scanVars, fsVars, getVars>>

\* lines 153-157: list
list ==
    /\ alive
    /\ ppc = "idle"
    /\ alive' = FALSE
    /\ fatalOp' = "list"
    /\ UNCHANGED <<regVars, waitVars, scanVars, fsVars, getVars>>

\* lines 158-163: listByInterface
listByInterface ==
    /\ alive
    /\ ppc = "idle"
    /\ alive' = FALSE
    /\ fatalOp' = "listByInterface"
    /\ UNCHANGED <<regVars, waitVars, scanVars, fsVars, getVars>>

\* lines 165-171: registerForNotifications
registerForNotifications ==
    /\ alive
    /\ ppc = "idle"
    /\ alive' = FALSE
    /\ fatalOp' = "registerForNotifications"
    /\ UNCHANGED <<regVars, waitVars, scanVars, fsVars, getVars>>

\* ------------------------------------------------------------ initial state
InitRegistryVars ==
    /\ gDefaultServiceManager = NULL
    /\ gDefaultServiceManagerLock = 0
    /\ pc = [t \in Procs |-> "idle"]
    /\ op = [t \in Procs |-> "none"]
    /\ calls = [t \in Procs |-> 0]
    /\ probe = [t \in Procs |-> "none"]
    /\ retval = [t \in Procs |-> NotYet]
    /\ didLock = [t \in Procs |-> FALSE]
    /\ didLookup = [t \in Procs |-> FALSE]
    /\ didSleep = [t \in Procs |-> FALSE]
    /\ startedPublished = [t \in Procs |-> FALSE]
    /\ lookers = {}
    /\ totalLookups = 0
    /\ failures = 0
    /\ successes = 0
    /\ returned = {}

InitWaitVars ==
    /\ manager = [t \in Procs |-> NotYet]
    /\ regResult = [t \in Procs |-> "none"]
    /\ waiterCreated = [t \in Procs |-> FALSE]
    /\ mRegistered = [t \in Procs |-> FALSE]
    /\ mMutex = [t \in Procs |-> 0]
    /\ cbpc = [t \in Procs |-> [c \in Callbacks |-> "idle"]]
    /\ notified = [t \in Procs |-> 0]
    /\ enteredWait = [t \in Procs |-> FALSE]
    /\ outcome = [t \in Procs |-> "none"]

InitGetVars ==
    /\ alive = TRUE
    /\ fatalOp = "none"
    /\ ppc = "idle"
    /\ getCalls = 0
    /\ iface = NoName
    /\ instName = "default"
    /\ root = 0
    /\ libs = <<>>
    /\ idx = 0
    /\ handle = NoHandle
    /\ library = <<>>
    /\ result = NoResult
    /\ scanned = <<>>
    /\ warned = <<>>
    /\ attempts = <<>>
    /\ symLookups = 0
    /\ factoryCalls = <<>>
    /\ errors = <<>>
    /\ loadedLibs = {}

InitScanVars ==
    /\ sCalled = FALSE
    /\ sPath = "ODM"
    /\ sPrefix = <<>>
    /\ sSuffix = <<>>
    /\ sResult = <<>>

\* No library directory matters to the registry and the waiter.
InitNoFiles ==
    /\ dirOpen = [p \in Paths |-> FALSE]
    /\ dirEntries = [p \in Paths |-> <<>>]
    /\ loadable = {}
    /\ exportsSym = {}

\* The kinds of directory entry a lookup can meet: a name without the
\* prefix or without the suffix, a matching library that does not load, one
\* that loads without the factory symbol, one that loads and exports it.
FileKinds == {"other", "unloadable", "noSymbol", "good"}

\* The i-th entry of a directory: names within a directory are distinct.
EntryName(kind, i) ==
    IF kind = "other"
      THEN IF i % 2 = 1 THEN Prefix \o <<ToString(i)>> ELSE <<ToString(i)>> \o Suffix
      ELSE Prefix \o <<ToString(i)>> \o Suffix

Listing(kinds) == [i \in 1..Len(kinds) |-> EntryName(kinds[i], i)]

FilesOfKinds(p, kinds, wanted) ==
    {<<p, EntryName(kinds[i], i)>> : i \in {j \in 1..Len(kinds) : kinds[j] \in wanted}}

\* Every file system with at most MaxFiles entries in the three directories;
\* a directory that cannot be opened has no entries to yield.
InitFiles ==
    \E n \in [Paths -> 0..MaxFiles] :
      /\ n["ODM"] + n["VENDOR"] + n["SYSTEM"] <= MaxFiles
      /\ \E o \in [Paths -> BOOLEAN] :
           /\ \A p \in Paths : ~o[p] => n[p] = 0
           /\ dirOpen = o
      /\ \E ko \in [1..n["ODM"] -> FileKinds],
            kv \in [1..n["VENDOR"] -> FileKinds],
            ks \in [1..n["SYSTEM"] -> FileKinds] :
           LET kinds == [p \in Paths |-> CASE p = "ODM" -> ko
                                           [] p = "VENDOR" -> kv
                                           [] OTHER -> ks]
           IN /\ dirEntries = [p \in Paths |-> Listing(kinds[p])]
              /\ loadable = UNION {FilesOfKinds(p, kinds[p], {"noSymbol", "good"}) : p \in Paths}
              /\ exportsSym = UNION {FilesOfKinds(p, kinds[p], {"good"}) : p \in Paths}

Init == InitRegistryVars /\ InitWaitVars /\ InitGetVars /\ InitScanVars /\ InitNoFiles

InitPassthrough ==
    InitRegistryVars /\ InitWaitVars /\ InitGetVars /\ InitScanVars /\ InitFiles

\* File names of up to MaxNameLen characters, and the directories of up to
\* MaxEntries entries with distinct names.
FileNames == UNION {[1..k -> Letters] : k \in 1..MaxNameLen}
Directories ==
    {d \in UNION {[1..k -> FileNames] : k \in 0..MaxEntries} :
        \A i, j \in 1..Len(d) : i # j => d[i] # d[j]}

\* One directory, the ODM path, that cannot be opened or holds any of these
\* listings; the other two paths do not exist.
InitSearch ==
    /\ InitRegistryVars /\ InitWaitVars /\ InitGetVars /\ InitScanVars
    /\ loadable = {}
    /\ exportsSym = {}
    /\ \E open \in BOOLEAN, d \in Directories :
         /\ ~open => d = <<>>
         /\ dirOpen = [p \in Paths |-> p = "ODM" /\ open]
         /\ dirEntries = [p \in Paths |-> IF p = "ODM" THEN d ELSE <<>>]

\* Threads calling defaultServiceManager() concurrently.
NextRegistry ==
    \E t \in Threads :
        \/ GetRegistry(t)
        \/ DsmStep(t)

SpecRegistry == Init /\ [][NextRegistry]_vars

\* The same under a scheduler that lets every thread inside
\* defaultServiceManager() run: a thread that can take its next statement
\* takes it in the end (the mutex is released after finitely many steps).
SpecRegistryFair == SpecRegistry /\ \A t \in Threads : WF_vars(DsmStep(t))

\* Threads calling waitForHwService(), and the registry calling them back.
NextWait ==
    \E t \in Waiters :
        \/ GetRegistry(t)
        \/ WaitForService(t)
        \/ DsmStep(t)
        \/ WaitStep(t)
        \/ \E c \in Callbacks : CbStep(t, c)

SpecWait == Init /\ [][NextWait]_vars

\* The steps of waitForHwService that neither wait for a mutex nor for the
\* condition variable.
WaitProgress(t) ==
    \/ CheckManager(t)
    \/ Register(t)
    \/ CheckOk(t)
    \/ CheckRet(t)
    \/ WaitCheck(t)

\* Scheduling: a running thread goes on running, and a thread that waits for
\* a mutex which is released again and again gets it.  Nothing is assumed
\* of spurious wake-ups, nor of the registry ever delivering a callback.
SpecWaitFair ==
    /\ SpecWait
    /\ \A t \in Waiters :
         /\ WF_vars(WaitProgress(t))
         /\ SF_vars(WaitLock(t))
         /\ SF_vars(WaitReacquire(t))
         /\ \A c \in Callbacks :
              /\ SF_vars(CbLock(t, c))
              /\ WF_vars(CbCheck(t, c))
              /\ WF_vars(CbUnlock(t, c))
              /\ WF_vars(CbNotify(t, c))

\* A client of the passthrough service manager.
NextPassthrough ==
    \/ Get
    \/ Validate
    \/ Scan
    \/ Dlopen
    \/ NextPath
    \/ CheckHandle
    \/ Dlsym
    \/ Invoke
    \/ add
    \/ list
    \/ listByInterface
    \/ registerForNotifications

SpecPassthrough == InitPassthrough /\ [][NextPassthrough]_vars

\* A caller of search().
NextSearch == Search

SpecSearch == InitSearch /\ [][NextSearch]_vars

\* =========================================================== properties

\* A call of defaultServiceManager() by t that got past access() and returned.
ReturnedAfterProbe(t) == probe[t] = "ok" /\ retval[t] # NotYet

\* C1: of the threads that call defaultServiceManager() while no handle is
\* published and pass the probe, only one ever runs getContextObject; the
\* others took the mutex, found the handle published and looked nothing up;
\* and all of them return the one published handle.
C1_OneInitializer ==
    /\ Cardinality(lookers) <= 1
    /\ Cardinality(returned \ {NULL}) <= 1
    /\ \A t \in Threads :
         ReturnedAfterProbe(t) =>
           /\ retval[t] # NULL
           /\ retval[t] = gDefaultServiceManager
           /\ Cardinality(lookers) = 1
           /\ didLock[t]
           /\ t \notin lookers => ~didLookup[t] /\ ~didSleep[t]

\* Two first calls, both past the probe: one retried and initialised, the
\* other went through the mutex without a lookup, both hold the same handle.
C1_Witness ==
    \E t, u \in Threads :
        /\ t # u
        /\ calls[t] = 1 /\ calls[u] = 1
        /\ ReturnedAfterProbe(t) /\ ReturnedAfterProbe(u)
        /\ didLookup[t] /\ didSleep[t]
        /\ didLock[u] /\ ~didLookup[u]
        /\ retval[t] = retval[u] /\ retval[t] \in Handles

\* C2: once a handle is published the global never changes again, no second
\* successful initialisation happens, and every call begun after the
\* publication returns that handle.
C2_WriteOnce ==
    [][ /\ gDefaultServiceManager # NULL => gDefaultServiceManager' = gDefaultServiceManager
        /\ successes' <= 1
        /\ \A t \in Threads :
             (startedPublished[t] /\ retval[t] = NotYet /\ retval'[t] # NotYet) =>
                 /\ retval'[t] = gDefaultServiceManager
                 /\ retval'[t] # NULL
                 /\ ~didLookup[t] ]_vars

\* A call begun after the publication has returned the published handle,
\* while another thread had been the initialiser.
C2_Witness ==
    \E t, u \in Threads :
        /\ t # u
        /\ startedPublished[t] /\ retval[t] = gDefaultServiceManager
        /\ u \in lookers /\ successes = 1
        /\ gDefaultServiceManager \in Handles

\* C3: with a registry handle and registerForNotifications answering true,
\* waitForHwService has returned only if onRegistration has set the flag of
\* this call's Waiter.
C3_ReturnsOnlyRegistered ==
    \A t \in Waiters :
        (regResult[t] = "true" /\ outcome[t] # "none") =>
            /\ manager[t] \in Handles
            /\ outcome[t] = "registered"
            /\ mRegistered[t]
            /\ \E c \in Callbacks : cbpc[t][c] \in {"C191", "C193", "done"}

\* The caller was let go after the callback had signalled.
C3_Witness ==
    \E t \in Waiters :
        /\ regResult[t] = "true"
        /\ outcome[t] = "registered"
        /\ enteredWait[t]
        /\ notified[t] = 1

\* C4: without a registry handle no Waiter is registered, and without a
\* handle, on a transport error or on the answer false the caller never
\* calls wait(), never holds the Waiter's mutex, and its next statement can
\* always run whatever the callbacks do.
C4_FailureNeverBlocks ==
    \A t \in Waiters :
        /\ manager[t] = NULL =>
             /\ ~waiterCreated[t] /\ regResult[t] = "none" /\ ~enteredWait[t]
             /\ IF op[t] = "waitForService"
                  THEN pc[t] = "W214" /\ ENABLED CheckManager(t)
                  ELSE outcome[t] = "noManager"
        /\ regResult[t] \in {"transportError", "false"} =>
             /\ ~enteredWait[t] /\ mMutex[t] # -1
             /\ IF op[t] = "waitForService"
                  THEN /\ pc[t] \in {"W222", "W229"}
                       /\ ENABLED (CheckOk(t) \/ CheckRet(t))
                  ELSE outcome[t] = (IF regResult[t] = "false" THEN "logicalFailure"
                                                            ELSE "transportError")

\* The answer false, and the caller is back with no callback ever started.
C4_Witness ==
    \E t \in Waiters :
        /\ outcome[t] = "logicalFailure"
        /\ waiterCreated[t]
        /\ \A c \in Callbacks : cbpc[t][c] = "idle"

\* The priority of the search roots as the specification gives it.
RootOrder == <<"ODM", "VENDOR", "SYSTEM">>
Candidates(p) == search(p, Prefix, Suffix)
LoadableIn(p) == {i \in 1..Len(Candidates(p)) : <<p, Candidates(p)[i]>> \in loadable}
RootsWithLoadable == {r \in 1..Len(RootOrder) : LoadableIn(RootOrder[r]) # {}}
RootIndex(p) == CHOOSE r \in 1..Len(RootOrder) : RootOrder[r] = p
Least(S) == CHOOSE x \in S : \A y \in S : x <= y
GetFinished == ppc = "idle" /\ getCalls > 0
FullName == iface.isValid /\ iface.isFullyQualified /\ ~iface.isIdentifier

\* C5: a finished get() of a fully qualified name has loaded a library of
\* the first root, in the order ODM, vendor, system, that holds a loadable
\* candidate; roots with none or only unloadable candidates are passed over,
\* and with no loadable candidate anywhere nothing is loaded.
C5_HighestPriorityRoot ==
    (GetFinished /\ FullName) =>
        IF RootsWithLoadable = {}
          THEN handle = NoHandle /\ result = Absent
          ELSE /\ handle # NoHandle
               /\ handle \in loadable
               /\ handle[1] = RootOrder[Least(RootsWithLoadable)]
               /\ \E i \in LoadableIn(handle[1]) : handle[2] = Candidates(handle[1])[i]

\* ODM holds only a candidate that does not load, vendor and system hold
\* loadable ones: the vendor library is the one loaded.
C5_Witness ==
    /\ GetFinished /\ FullName
    /\ Len(Candidates("ODM")) > 0 /\ LoadableIn("ODM") = {}
    /\ LoadableIn("VENDOR") # {} /\ LoadableIn("SYSTEM") # {}
    /\ handle # NoHandle /\ handle[1] = "VENDOR"

AttemptsIn(p) == SelectSeq(attempts, LAMBDA f : f[1] = p)

\* C6: once a library has opened it is the last one tried: every earlier
\* attempt failed, the attempts in its root are the root's candidates in scan
\* order up to it, it is the first loadable one of them, and no root after
\* its own was scanned.
C6_FirstLoadEndsSearch ==
    handle # NoHandle =>
        /\ attempts # <<>>
        /\ attempts[Len(attempts)] = handle
        /\ \A j \in 1..(Len(attempts) - 1) : attempts[j] \notin loadable
        /\ LET p == handle[1]
               k == Len(AttemptsIn(p))
           IN /\ k <= Len(Candidates(p))
              /\ \A i \in 1..k : AttemptsIn(p)[i] = <<p, Candidates(p)[i]>>
              /\ k = Least(LoadableIn(p))
              /\ scanned # <<>> /\ scanned[Len(scanned)] = p
              /\ \A j \in 1..Len(scanned) : RootIndex(scanned[j]) <= RootIndex(p)
              /\ \A j \in 1..Len(attempts) : RootIndex(attempts[j][1]) <= RootIndex(p)

\* ODM holds an unloadable candidate and then a loadable one, vendor holds a
\* loadable one: get() used the second ODM candidate and vendor was not read.
C6_Witness ==
    /\ GetFinished
    /\ Len(Candidates("ODM")) = 2
    /\ LoadableIn("ODM") = {2}
    /\ LoadableIn("VENDOR") # {}
    /\ handle = <<"ODM", Candidates("ODM")[2]>>
    /\ scanned = <<"ODM">>
    /\ Len(attempts) = 2

\* C7: a call of get() with a name that is invalid, not fully qualified or a
\* bare identifier scans no directory, opens no library and looks up no
\* symbol, and returns absent.
C7_InvalidNameNoFilesystem ==
    (getCalls > 0 /\ ~FullName) =>
        /\ ppc \in {"G94", "idle"}
        /\ scanned = <<>>
        /\ attempts = <<>>
        /\ symLookups = 0
        /\ factoryCalls = <<>>
        /\ handle = NoHandle
        /\ ppc = "idle" => result = Absent /\ errors = <<"InvalidInterfaceName">>

\* A name that is valid but not fully qualified was refused although ODM
\* holds a library that loads and exports the symbol.
C7_Witness ==
    /\ GetFinished
    /\ iface.isValid /\ ~iface.isFullyQualified /\ ~iface.isIdentifier
    /\ result = Absent
    /\ \E i \in LoadableIn("ODM") : <<"ODM", Candidates("ODM")[i]>> \in exportsSym

\* Every candidate of every root, in root-major scan order.
AllCandidates ==
    LET of(p) == [i \in 1..Len(Candidates(p)) |-> <<p, Candidates(p)[i]>>]
    IN of(RootOrder[1]) \o of(RootOrder[2]) \o of(RootOrder[3])
FirstLoadable == Least({i \in 1..Len(AllCandidates) : AllCandidates[i] \in loadable})

\* C8: when the first library that loads lacks the factory symbol, get()
\* returns absent after that one dlsym, having tried nothing after that
\* library and having called no factory.
C8_MissingSymbolEndsLookup ==
    (GetFinished /\ FullName /\ RootsWithLoadable # {}
       /\ AllCandidates[FirstLoadable] \notin exportsSym) =>
        /\ result = Absent
        /\ handle = AllCandidates[FirstLoadable]
        /\ attempts = SubSeq(AllCandidates, 1, FirstLoadable)
        /\ symLookups = 1
        /\ factoryCalls = <<>>
        /\ errors = <<"MissingSymbol">>

\* The first loadable library lacks the symbol while a later candidate, in
\* the same root or a later one, loads and exports it.
C8_Witness ==
    /\ GetFinished /\ FullName /\ RootsWithLoadable # {}
    /\ AllCandidates[FirstLoadable] \notin exportsSym
    /\ \E i \in (FirstLoadable + 1)..Len(AllCandidates) :
          AllCandidates[i] \in loadable \cap exportsSym
    /\ result = Absent

\* C9 as the specification states it: a registry-only operation on the
\* passthrough service manager reports an error and the process lives on.
C9_Original == fatalOp # "none" => alive

\* C9, amended: a registry-only operation on the passthrough service manager
\* (add, list, listByInterface, registerForNotifications) aborts the process
\* with a fatal log line; nothing is returned and nothing runs afterwards.
C9_FatalAborts ==
    /\ fatalOp # "none" <=> ~alive
    /\ fatalOp # "none" => ~ENABLED NextPassthrough

\* add was called after a lookup had returned a service: the process is gone.
C9_Witness ==
    /\ fatalOp = "add"
    /\ ~alive
    /\ getCalls > 0 /\ result # Absent /\ result # NoResult

\* C10: a call of defaultServiceManager() whose access() failed has returned
\* nullptr with that statement: it took no mutex, looked nothing up and did
\* not sleep.
C10_ProbeFailureReturnsAbsent ==
    \A t \in Threads :
        probe[t] = "fail" =>
            /\ retval[t] = NULL
            /\ pc[t] = "idle"
            /\ ~didLock[t] /\ ~didLookup[t] /\ ~didSleep[t]
            /\ gDefaultServiceManagerLock # t

\* The probe failed for one thread while another held the mutex in its retry
\* loop: the first is back with nullptr all the same.
C10_Witness ==
    \E t, u \in Threads :
        /\ t # u
        /\ probe[t] = "fail" /\ retval[t] = NULL /\ pc[t] = "idle"
        /\ gDefaultServiceManagerLock = u /\ didSleep[u] /\ pc[u] = "L58"

\* C11: a call of defaultServiceManager() that got past access() never
\* returns nullptr and returns only after some lookup succeeded; a failed
\* lookup is followed by sleep(1) and another lookup; and, the scheduler being
\* fair and a lookup succeeding in the end, the initialising thread and the
\* threads waiting for the mutex behind it all return the published handle.
C11_RetryUntilSuccess ==
    /\ [](\A t \in Threads :
            /\ ReturnedAfterProbe(t) => retval[t] \in Handles /\ successes >= 1
            /\ (pc[t] \in {"L57", "L58"} /\ didLookup[t] /\ gDefaultServiceManager = NULL)
                 => didSleep[t] /\ gDefaultServiceManagerLock = t
            /\ (pc[t] = "L63" /\ gDefaultServiceManagerLock = t)
                 => gDefaultServiceManager # NULL)
    /\ \A t \in Threads :
         (probe[t] = "ok") ~>
             (retval[t] \in Handles /\ retval[t] = gDefaultServiceManager)

\* The initialiser failed as often as the transport failed at all, slept
\* each time, and it and the thread that had waited behind it both hold the
\* handle.
C11_Witness ==
    \E t, u \in Threads :
        /\ t # u
        /\ failures = MaxFailures /\ didSleep[t] /\ t \in lookers
        /\ ReturnedAfterProbe(t) /\ ReturnedAfterProbe(u)
        /\ retval[t] \in Handles /\ retval[u] = retval[t]

\* The deliveries of onRegistration that have set the flag of t's Waiter and
\* not yet finished.
Signalling(t) == {c \in Callbacks : cbpc[t][c] \in {"C191", "C193"}}

\* C12: of the onRegistration deliveries to one Waiter only the first to
\* take the mutex sets the flag and calls notify_one; every other one leaves
\* flag, mutex and condition variable as they were; and the flag, once set,
\* stays set.
C12_OneShot ==
    [][ \A t \in Waiters :
          /\ mRegistered[t] => mRegistered'[t]
          /\ notified'[t] + Cardinality(Signalling(t)') <= 1
          /\ notified'[t] + Cardinality(Signalling(t)') = (IF mRegistered'[t] THEN 1 ELSE 0)
          /\ \A c \in Callbacks :
               (mRegistered[t] /\ cbpc[t][c] = "C187" /\ cbpc'[t][c] # "C187") =>
                   /\ cbpc'[t][c] = "done"
                   /\ notified'[t] = notified[t]
                   /\ mRegistered'[t]
                   /\ pc'[t] = pc[t] ]_vars

\* Every delivery has run to its end, one signal was given and the flag is set.
C12_Witness ==
    \E t \in Waiters :
        /\ \A c \in Callbacks : cbpc[t][c] = "done"
        /\ notified[t] = 1
        /\ mRegistered[t]

\* C13: a finished get() whose library loaded and exports the factory symbol
\* has called the factory of that library once, with the caller's instance
\* name, and has returned what that call produced, a null pointer included.
C13_FactoryResultUnmodified ==
    (GetFinished /\ handle # NoHandle /\ handle \in exportsSym) =>
        /\ Len(factoryCalls) = 1
        /\ factoryCalls[1][1] = handle
        /\ factoryCalls[1][2] = instName
        /\ result = factoryCalls[1][3]
        /\ result \in {Absent, Service(handle, instName)}
        /\ symLookups = 1

\* The caller asked for the instance "other", the factory answered with a null
\* pointer, and that is what get() returned.
C13_Witness ==
    /\ GetFinished /\ handle # NoHandle /\ handle \in exportsSym
    /\ instName = "other"
    /\ factoryCalls = <<<<handle, "other", Absent>>>>
    /\ result = Absent

\* A name starts with prefix and ends with suffix, character by character.
NameMatches(name, prefix, suffix) ==
    /\ Len(prefix) <= Len(name)
    /\ Len(suffix) <= Len(name)
    /\ \A k \in 1..Len(prefix) : name[k] = prefix[k]
    /\ \A k \in 1..Len(suffix) : name[Len(name) - Len(suffix) + k] = suffix[k]

\* The matching entries of a listing, in the order of the listing.
RECURSIVE MatchingEntries(_, _, _)
MatchingEntries(entries, prefix, suffix) ==
    IF entries = <<>>
      THEN <<>>
      ELSE (IF NameMatches(Head(entries), prefix, suffix) THEN <<Head(entries)>> ELSE <<>>)
             \o MatchingEntries(Tail(entries), prefix, suffix)

\* C14: search(path, prefix, suffix) returns the entries of the directory
\* that start with prefix and end with suffix, each once and in the order
\* readdir yields them; for a directory that cannot be opened, and for one
\* without a matching entry, it returns the empty vector.
C14_SearchReturnsMatches ==
    sCalled =>
        /\ sResult = (IF dirOpen[sPath]
                        THEN MatchingEntries(dirEntries[sPath], sPrefix, sSuffix)
                        ELSE <<>>)
        /\ (\A i \in 1..Len(dirEntries[sPath]) :
               ~NameMatches(dirEntries[sPath][i], sPrefix, sSuffix)) => sResult = <<>>

\* Of two entries that both start with the prefix only the second also ends
\* with the suffix, and it alone is returned.
C14_Witness ==
    /\ sCalled
    /\ sPrefix # <<>> /\ sSuffix # <<>>
    /\ Len(dirEntries[sPath]) = 2
    /\ StartsWith(dirEntries[sPath][1], sPrefix)
    /\ sResult = <<dirEntries[sPath][2]>>

\* C15 as stated: the root-object lookup is invoked exactly once per process,
\* so once any call has returned a handle exactly one invocation was made.
C15_Original ==
    (returned \cap Handles # {}) => totalLookups = 1

\* C15: the root-object lookup is invoked only by the holder of the mutex
\* and only while no handle is published; every invocation but the last
\* yielded nothing, at most one yields a handle, and once a handle is
\* published no invocation follows: a call that found the handle published
\* at its entry makes none.
C15_LookupUntilFirstSuccess ==
    [][/\ totalLookups' # totalLookups =>
            /\ totalLookups' = totalLookups + 1
            /\ gDefaultServiceManager = NULL
            /\ \E t \in Threads : gDefaultServiceManagerLock = t /\ pc[t] = "L58"
       /\ successes' <= 1
       /\ totalLookups' = failures' + successes'
       /\ (successes' = 1) = (gDefaultServiceManager' # NULL)
       /\ \A t \in Threads : startedPublished'[t] => ~didLookup'[t]
       /\ (returned' \cap Handles # {}) => successes' = 1]_vars

\* MaxFailures invocations yielded nothing, the next one a handle, and a
\* later call of a thread was served from the cache.
C15_Witness ==
    /\ totalLookups = MaxFailures + 1
    /\ successes = 1
    /\ \E t \in Threads :
         /\ pc[t] = "idle"
         /\ calls[t] >= 2
         /\ startedPublished[t]
         /\ retval[t] = gDefaultServiceManager
         /\ ~didLookup[t]

\* C16: the libraries this process has loaded only grow: a library that
\* dlopen() opened stays loaded through the symbol lookup, the return for a
\* missing symbol and the call of the factory, and the handle get holds is
\* always of a loaded library.
C16_LoadedLibsAppendOnly ==
    /\ [][loadedLibs \subseteq loadedLibs']_vars
    /\ [](handle # NoHandle => handle \in loadedLibs)
    /\ []({attempts[i] : i \in 1..Len(attempts)} \cap loadable \subseteq loadedLibs)
    /\ [](loadedLibs \subseteq loadable)

\* get has returned nullptr for a library without the factory symbol, and
\* the library is still loaded.
C16_Witness ==
    /\ getCalls = 1
    /\ ppc = "idle"
    /\ result = Absent
    /\ handle # NoHandle
    /\ handle \notin exportsSym
    /\ handle \in loadedLibs

\* C17: no wake-up is lost.  A caller blocked in the condition variable
\* after the flag was set has a notify_one() still to come, and once a
\* callback has set the flag the caller of waitForHwService returns,
\* wherever on its way from registerForNotifications to wait() it was when
\* the callback ran: as "registered" when the registration was accepted.
C17_NoLostWakeup ==
    /\ [](\A t \in Waiters :
            (pc[t] = "blocked" /\ mRegistered[t]) =>
                \E c \in Callbacks : cbpc[t][c] \in {"C191", "C193"})
    /\ \A t \in Waiters :
         /\ mRegistered[t] ~> (outcome[t] # "none")
         /\ (mRegistered[t] /\ regResult[t] = "true") ~> (outcome[t] = "registered")

\* The callback has set the flag and signalled while the caller had not
\* yet taken the waiter's mutex.
C17_Witness ==
    \E t \in Waiters :
        /\ pc[t] = "W198"
        /\ mRegistered[t]
        /\ notified[t] = 1
        /\ \A c \in Callbacks : cbpc[t][c] \in {"idle", "done"}

\* C18: a library that fails to open never ends get() by itself.  The
\* attempts made so far are always the first candidates of the three roots
\* taken in the order ODM, vendor, system and within a root in scan order,
\* each once; a finished get() of a valid name either opened a library or
\* attempted every candidate of every root, and it returns nullptr with no
\* library opened only when all of them were attempted and none opened, all
\* three roots scanned and nothing logged as an error.
C18_LoadFailureNotTerminal ==
    FullName =>
        /\ Len(attempts) <= Len(AllCandidates)
        /\ \A i \in 1..Len(attempts) : attempts[i] = AllCandidates[i]
        /\ \A i \in 1..(Len(attempts) - 1) : attempts[i] \notin loadable
        /\ GetFinished => (handle # NoHandle \/ attempts = AllCandidates)
        /\ (GetFinished /\ handle = NoHandle) =>
              /\ result = Absent
              /\ attempts = AllCandidates
              /\ \A i \in 1..Len(attempts) : attempts[i] \notin loadable
              /\ scanned = RootOrder
              /\ errors = <<>>

\* get() returned nullptr after three libraries of more than one root
\* all failed to open.
C18_Witness ==
    /\ GetFinished /\ FullName
    /\ handle = NoHandle
    /\ result = Absent
    /\ Len(attempts) = 3
    /\ attempts[1][1] # attempts[3][1]

\* C19: the roots warned about are, in order and each once, the scanned
\* roots whose scan returned more than one candidate; the scanned roots are
\* the first roots of the order, none after the root of the opened library,
\* so a root left unscanned is never warned about; and a warning changes
\* nothing of the outcome: a finished get() of a valid name has opened the
\* first loadable candidate whenever there is one.
C19_WarningIffAmbiguous ==
    /\ warned = SelectSeq(scanned, LAMBDA p : Len(Candidates(p)) > 1)
    /\ Len(scanned) <= Len(RootOrder)
    /\ \A r \in 1..Len(scanned) : scanned[r] = RootOrder[r]
    /\ handle # NoHandle => Len(scanned) = RootIndex(handle[1])
    /\ (GetFinished /\ FullName /\ RootsWithLoadable # {}) =>
          handle = AllCandidates[FirstLoadable]

\* The scan of ODM returned two candidates and was warned about, the first
\* did not open and the second did; the vendor root holds a candidate and
\* was never scanned.
C19_Witness ==
    /\ GetFinished
    /\ warned = <<"ODM">>
    /\ scanned = <<"ODM">>
    /\ Len(attempts) = 2
    /\ handle = attempts[2]
    /\ Len(Candidates("VENDOR")) = 1

\* A step in which thread t has access() answered.
ProbeConsulted(t) == probe[t] = "none" /\ probe'[t] # "none"

\* C20 as stated: the probe is consulted only while no handle is published.
C20_Original ==
    [][\A t \in Threads : ProbeConsulted(t) => gDefaultServiceManager = NULL]_vars

\* C20: nothing is cached of an absent result.  The step in which a call
\* has its probe fail returns absent and changes neither the cached handle
\* nor the mutex nor the count of lookups, and a handle is published only
\* by a lookup that yielded one; the probe is consulted only by a call whose
\* own check at entry found no handle published, whatever another thread
\* has published since.
C20_AbsentNotCached ==
    [][/\ \A t \in Threads :
            /\ ProbeConsulted(t) => pc[t] = "L50" /\ ~startedPublished[t]
            /\ (ProbeConsulted(t) /\ probe'[t] = "fail") =>
                  /\ retval'[t] = NULL
                  /\ pc'[t] \in {"idle", "W214"}
                  /\ ~didLock'[t] /\ ~didLookup'[t]
                  /\ gDefaultServiceManager' = gDefaultServiceManager
                  /\ gDefaultServiceManagerLock' = gDefaultServiceManagerLock
                  /\ totalLookups' = totalLookups
       /\ gDefaultServiceManager' # gDefaultServiceManager =>
            \E t \in Threads : pc[t] = "L58" /\ probe[t] = "ok"]_vars

\* The first call of the only active thread returned absent, its second
\* call found the probe passing, ran the initialization and returned the handle.
C20_Witness ==
    \E t \in Threads :
        /\ \A u \in Threads \ {t} : calls[u] = 0
        /\ calls[t] = 2
        /\ NULL \in returned
        /\ pc[t] = "idle"
        /\ probe[t] = "ok"
        /\ didLookup[t]
        /\ retval[t] \in Handles
====
